---- MODULE Spec2Model ----
(***************************************************************************)
(* Model of the tfmpi2c package (Benewake TFMini-Plus Lidar, I2C mode):    *)
(* the module globals, begin(), getData() and sendCommand(), with the      *)
(* smbus transport as the environment.  Each call of the package is one    *)
(* action; the bytes the device returns and the transport call that fails  *)
(* (if any) are the inputs of the action.                                  *)
(***************************************************************************)
EXTENDS Integers, Sequences, FiniteSets, TLC

\* ---------------------------------------------------------------- sizes
TFMP_FRAME_SIZE == 9
TFMP_COMMAND_MAX == 8
TFMP_REPLY_SIZE == 8

\* ---------------------------------------------------------- status codes
TFMP_READY == 0
TFMP_SERIAL == 1
TFMP_HEADER == 2
\* faulty variant of TFMP_CHECKSUM: a checksum failure leaves the status Ready
ChecksumStatusNotSet == TFMP_READY
TFMP_CHECKSUM == 3
TFMP_TIMEOUT == 4
TFMP_PASS == 5
TFMP_FAIL == 6
TFMP_I2CREAD == 7
TFMP_I2CWRITE == 8
TFMP_I2CLENGTH == 9
TFMP_WEAK == 10
TFMP_STRONG == 11
TFMP_FLOOD == 12
TFMP_MEASURE == 13

\* -------------------------------------------------------- command codes
\* 0x PP NN LL RR : payload, command number, command length, reply length
OBTAIN_FIRMWARE_VERSION == 66567      \* 0x00010407
TRIGGER_DETECTION == 263168           \* 0x00040400
SYSTEM_RESET == 132101                \* 0x00020405
RESTORE_FACTORY_SETTINGS == 1049605   \* 0x00100405
SAVE_SETTINGS == 1115141              \* 0x00110405
SET_FRAME_RATE == 198150              \* 0x00030606
SET_BAUD_RATE == 395272               \* 0x00060808
STANDARD_FORMAT_CM == 17106181        \* 0x01050505
PIXHAWK_FORMAT == 33883397            \* 0x02050505
STANDARD_FORMAT_MM == 100992261       \* 0x06050505
ENABLE_OUTPUT == 460037               \* 0x00070505
DISABLE_OUTPUT == 17237253            \* 0x01070505
SET_I2C_ADDRESS == 269157637          \* 0x100B0505
SET_SERIAL_MODE == 656640             \* 0x000A0500
SET_I2C_MODE == 17433856              \* 0x010A0500
I2C_FORMAT_CM == 16778496             \* 0x01000500
I2C_FORMAT_MM == 100664576            \* 0x06000500

\* --------------------------------------------------- command parameters
BAUD_9600 == 9600           \* 0x002580
BAUD_14400 == 14400         \* 0x003840
BAUD_19200 == 19200         \* 0x004B00
BAUD_56000 == 56000         \* 0x00DAC0
BAUD_115200 == 115200       \* 0x01C200
BAUD_460800 == 460800       \* 0x070800
BAUD_921600 == 921600       \* 0x0E1000

FRAME_0 == 0
FRAME_1 == 1
FRAME_2 == 2
FRAME_5 == 5
FRAME_10 == 10
FRAME_20 == 20
FRAME_25 == 25
FRAME_50 == 50
FRAME_100 == 100
FRAME_125 == 125
FRAME_200 == 200
FRAME_250 == 250
FRAME_500 == 500
FRAME_1000 == 1000

Commands ==
  { OBTAIN_FIRMWARE_VERSION, TRIGGER_DETECTION, SYSTEM_RESET,
    RESTORE_FACTORY_SETTINGS, SAVE_SETTINGS, SET_FRAME_RATE, SET_BAUD_RATE,
    STANDARD_FORMAT_CM, PIXHAWK_FORMAT, STANDARD_FORMAT_MM, ENABLE_OUTPUT,
    DISABLE_OUTPUT, SET_I2C_ADDRESS, SET_SERIAL_MODE, SET_I2C_MODE,
    I2C_FORMAT_CM, I2C_FORMAT_MM }

BaudRates ==
  { BAUD_9600, BAUD_14400, BAUD_19200, BAUD_56000, BAUD_115200,
    BAUD_460800, BAUD_921600 }

FrameRates ==
  { FRAME_0, FRAME_1, FRAME_2, FRAME_5, FRAME_10, FRAME_20, FRAME_25,
    FRAME_50, FRAME_100, FRAME_125, FRAME_200, FRAME_250, FRAME_500,
    FRAME_1000 }

\* device defaults
DefaultAddr == 16
DefaultPort == 4

\* ------------------------------------------------------ Python helpers
Max(a, b) == IF a >= b THEN a ELSE b
Min(a, b) == IF a <= b THEN a ELSE b

\* int.to_bytes(k, byteorder = 'little'); raises OverflowError unless Fits
RECURSIVE Fits(_, _)
Fits(n, k) == n >= 0 /\ (IF k = 0 THEN n = 0 ELSE Fits(n \div 256, k - 1))

RECURSIVE ByteAt(_, _)
ByteAt(n, i) == IF i = 1 THEN n % 256 ELSE ByteAt(n \div 256, i - 1)

ToBytesLE(n, k) == [i \in 1..k |-> ByteAt(n, i)]

\* buf[start:stop] = v on a bytearray (0-based, 0 <= start <= len(buf)):
\* an empty or inverted slice inserts v at start
SetSlice(buf, start, stop, v) ==
  SubSeq(buf, 1, start) \o v \o SubSeq(buf, Max(start, stop) + 1, Len(buf))

\* buf[0:n]
Slice0(buf, n) == SubSeq(buf, 1, Min(n, Len(buf)))

\* chkSum = 0; for i in range(n): chkSum += buf[i]
RECURSIVE SumBytes(_, _)
SumBytes(buf, n) == IF n <= 0 THEN 0 ELSE SumBytes(buf, n - 1) + buf[n]

\* str() of a non-negative int
Digit(d) ==
  CASE d = 0 -> "0" [] d = 1 -> "1" [] d = 2 -> "2" [] d = 3 -> "3"
    [] d = 4 -> "4" [] d = 5 -> "5" [] d = 6 -> "6" [] d = 7 -> "7"
    [] d = 8 -> "8" [] d = 9 -> "9"

RECURSIVE Str(_)
Str(n) == IF n < 10 THEN Digit(n) ELSE Str(n \div 10) \o Digit(n % 10)

\* ------------------------------------------------------- command codec
ReplyLen(c) == ToBytesLE(c, TFMP_COMMAND_MAX)[1]
CmndLen(c) == ToBytesLE(c, TFMP_COMMAND_MAX)[2]
CmndNumber(c) == ToBytesLE(c, TFMP_COMMAND_MAX)[3]

HEADER == 90   \* 0x5A

\* faulty variants of PatchFrameRate: the parameter overwrites bytes 2..3,
\* or is stored high byte first
PatchFrameRateOverwrite(buf, p) == SetSlice(buf, 2, 4, ToBytesLE(p, 2))
PatchFrameRateBigEndian(buf, p) == SetSlice(buf, 3, 2, << (p \div 256) % 256, p % 256 >>)

\* cmndData[3:2] = param.to_bytes(2, 'little')
PatchFrameRate(buf, p) == SetSlice(buf, 3, 2, ToBytesLE(p, 2))
\* cmndData[3:3] = param.to_bytes(3, 'little')
PatchBaudRate(buf, p) == SetSlice(buf, 3, 3, ToBytesLE(p, 3))

\* does building the command raise OverflowError ?
ParamOverflow(c, p) ==
  \/ c = SET_FRAME_RATE /\ ~Fits(p, 2)
  \/ c = SET_BAUD_RATE /\ ~Fits(p, 3)

\* faulty variant of CommandChecksum: the sum leaves out the header byte
CommandChecksumSkipsHeader(buf, n) == (SumBytes(buf, n) - buf[1]) % 256

\* the command's checksum byte: low byte of the sum of the first n bytes
CommandChecksum(buf, n) == SumBytes(buf, n) % 256

\* Step 1 of sendCommand: the command data array
CmndData(c, p) ==
  LET raw == ToBytesLE(c, TFMP_COMMAND_MAX)
      cmndLen == raw[2]
      hdr == [raw EXCEPT ![1] = HEADER]
      patched == IF c = SET_FRAME_RATE THEN PatchFrameRate(hdr, p)
                 ELSE IF c = SET_BAUD_RATE THEN PatchBaudRate(hdr, p)
                 ELSE hdr
      cut == Slice0(patched, cmndLen)
  IN  [cut EXCEPT ![cmndLen] = CommandChecksum(cut, cmndLen - 1)]

\* ------------------------------------------------------------ the state
VARIABLES
  status, dist, flux, temp, version,   \* module globals: last results
  frame, reply,                        \* module globals: receive buffers
  addr, port,                          \* module globals: bus configuration
  op, cmnd, param,                     \* the latest call and its arguments
  result, exc,                         \* its return value / the exception it raised
  busLog,                              \* the transport calls it made, in order
  fault,                               \* the transport call that raised (0: none)
  portNumber, devAddress,              \* the arguments of the latest begin (0: none)
  calls,                               \* number of calls made so far
  attempts,                            \* test script: failure cycles counted
  pc,                                  \* test script: position in the script
  streak                               \* history: failure cycles in a row so far

vars ==
  << status, dist, flux, temp, version, frame, reply, addr, port,
     op, cmnd, param, result, exc, busLog, fault, portNumber, devAddress,
     calls, attempts, pc, streak >>

\* the state of the test script, which the package never touches
scriptVars == << attempts, pc, streak >>

\* number of package calls in one run, and of sendCommand calls in a run
\* that tries every command with every documented parameter
MaxCalls == 2
MaxCodecCalls == 1

\* one transport call: SMBus(port) / open, write_i2c_block_data,
\* read_i2c_block_data, write_quick, close; time.sleep is logged with them
BusCall(name, dev, reg, n, data) ==
  [call |-> name, dev |-> dev, reg |-> reg, len |-> n, data |-> data]

BusOpen(p) == BusCall("open", p, 0, 0, << >>)
BusClose(p) == BusCall("close", p, 0, 0, << >>)
BusWrite(a, reg, vals) == BusCall("write", a, reg, Len(vals), vals)
BusRead(a, reg, n) == BusCall("read", a, reg, n, << >>)
BusQuick(a) == BusCall("write_quick", a, 0, 0, << >>)
Sleep == BusCall("sleep", 0, 0, 0, << >>)

\* the transport calls of a sequence that can raise
FaultPoints(seq) == {k \in 1..Len(seq) : seq[k].call # "sleep"}

\* the calls made when call number k raises (k = 0: none raises)
Upto(seq, k) == IF k = 0 THEN seq ELSE SubSeq(seq, 1, k)

Init ==
  /\ status = 0
  /\ dist = 0
  /\ flux = 0
  /\ temp = 0
  /\ version = ""
  /\ frame = << >>
  /\ reply = << >>
  /\ addr = DefaultAddr
  /\ port = DefaultPort
  /\ op = "none"
  /\ cmnd = 0
  /\ param = 0
  /\ result = "None"
  /\ exc = ""
  /\ busLog = << >>
  /\ fault = 0
  /\ portNumber = 0
  /\ devAddress = 0
  /\ calls = 0
  /\ attempts = 0
  /\ pc = "begin"
  /\ streak = 0

\* ------------------------------------------------------------- begin()
Ports == {4, 1}
Addrs == {16, 17}

BeginCalls(p, a) == << BusOpen(p), BusOpen(p), BusQuick(a), BusClose(p) >>

\* faulty variant of BeginResult: a failing close is not reported
BeginResultIgnoresClose(k) == IF k = 0 \/ k = 4 THEN "True" ELSE "False"

\* return True after the try block, return False from the except clause
BeginResult(k) == IF k = 0 THEN "True" ELSE "False"

\* begin(portNumber, devAddress), the arguments drawn from ps and as
BeginCall(ps, as) ==
  /\ \E p \in ps, a \in as :
       \E k \in {0} \cup FaultPoints(BeginCalls(p, a)) :
         /\ portNumber' = p
         /\ devAddress' = a
         /\ addr' = a
         /\ port' = p
         /\ busLog' = Upto(BeginCalls(p, a), k)
         /\ fault' = k
         /\ result' = BeginResult(k)
         /\ exc' = ""
  /\ op' = "begin"
  /\ cmnd' = 0
  /\ param' = 0
  /\ UNCHANGED << status, dist, flux, temp, version, frame, reply >>

Begin ==
  /\ calls < MaxCalls
  /\ BeginCall(Ports, Addrs)
  /\ calls' = calls + 1
  /\ UNCHANGED scriptVars

\* ----------------------------------------------------------- getData()
\* (hi << 8) + lo
Word(lo, hi) == hi * 256 + lo

\* faulty variant of FrameChecksumBad: the test read with != binding
\* tighter than &, chkSum & (0xff != frame[TFMP_FRAME_SIZE - 1])
FrameChecksumBadPrecedence(f) ==
  (SumBytes(f, TFMP_FRAME_SIZE - 1) % 2 = 1) /\ (255 # f[TFMP_FRAME_SIZE])

\* chkSum & 0xff != frame[TFMP_FRAME_SIZE - 1]
FrameChecksumBad(f) ==
  SumBytes(f, TFMP_FRAME_SIZE - 1) % 256 # f[TFMP_FRAME_SIZE]

FrameDist(f) == Word(f[3], f[4])
FrameFlux(f) == Word(f[5], f[6])
\* faulty variant of FrameTemp: the offset of 256 is left out
FrameTempNoOffset(f) == Word(f[7], f[8]) \div 8

\* temp = (temp >> 3) - 256
FrameTemp(f) == (Word(f[7], f[8]) \div 8) - 256

\* the if / elif chain on abnormal data values
Classify(d, fl) ==
  IF d = -1 THEN TFMP_WEAK
  ELSE IF fl = -1 THEN TFMP_STRONG
  ELSE IF d = -4 THEN TFMP_FLOOD
  ELSE TFMP_READY

\* command that asks for distance data in centimeters
GetDataCalls(p, a) ==
  << BusOpen(p), BusWrite(a, 90, << 5, 0, 1, 96 >>),
     BusRead(a, 0, TFMP_FRAME_SIZE), BusClose(p) >>

\* what the device can return for a frame: header, distance, strength and
\* temperature bytes, followed by a right or a wrong checksum byte
RECURSIVE DeviceSum(_)
DeviceSum(body) ==
  IF body = << >> THEN 0 ELSE (Head(body) + DeviceSum(Tail(body))) % 256

DeviceBlock(body, bad) ==
  Append(body, IF bad THEN (DeviceSum(body) + 1) % 256 ELSE DeviceSum(body))

DistBytes == { << 100, 0 >>, << 255, 255 >>, << 252, 255 >> }
FluxBytes == { << 200, 0 >>, << 255, 255 >> }

FrameBodies ==
  { << 89, 89 >> \o d \o fl \o << 152, 8 >> : d \in DistBytes, fl \in FluxBytes }
  \cup { << 0, 0, 100, 0, 200, 0, 152, 8 >>, << 89, 89, 1, 2, 3, 4, 255, 255 >> }

Frames == { DeviceBlock(body, bad) : body \in FrameBodies, bad \in BOOLEAN }

\* the transport call that raises (0: none) and the frame the device returns
GetDataInputs ==
  { << k, << >> >> : k \in 1..3 } \cup { << k, rx >> : k \in {0, 4}, rx \in Frames }

\* getData(), the fault and the frame drawn from inputs
GetDataCall(inputs) ==
  /\ \E in \in inputs :
       LET k == in[1]
           rx == in[2]
           read == k = 0 \/ k > 3          \* read_i2c_block_data returned
           done == k = 0                   \* no transport call raised
       IN  /\ busLog' = Upto(GetDataCalls(port, addr), k)
           /\ fault' = k
           /\ exc' = IF done THEN "" ELSE "OSError"
           /\ frame' = IF read THEN rx ELSE frame
           /\ IF done /\ ~FrameChecksumBad(rx)
              THEN /\ dist' = FrameDist(rx)
                   /\ flux' = FrameFlux(rx)
                   /\ temp' = FrameTemp(rx)
                   /\ status' = Classify(FrameDist(rx), FrameFlux(rx))
                   /\ result' = IF Classify(FrameDist(rx), FrameFlux(rx)) # TFMP_READY
                                THEN "False" ELSE "True"
              ELSE /\ UNCHANGED << dist, flux, temp >>
                   /\ status' = IF done THEN TFMP_CHECKSUM ELSE TFMP_READY
                   /\ result' = IF done THEN "False" ELSE "None"
  /\ op' = "getData"
  /\ cmnd' = 0
  /\ param' = 0
  /\ UNCHANGED << version, reply, addr, port, portNumber, devAddress >>

GetData ==
  /\ calls < MaxCalls
  /\ GetDataCall(GetDataInputs)
  /\ calls' = calls + 1
  /\ UNCHANGED scriptVars

\* ------------------------------------------------------- sendCommand()
\* faulty variant of SendCommandCalls: no early return when no reply is expected
SendCommandCallsNoEarlyReturn(c, p) ==
  << BusOpen(port), BusWrite(addr, 0, CmndData(c, p)), BusClose(port),
     Sleep, BusOpen(port), BusRead(addr, 0, ReplyLen(c)), BusClose(port) >>

\* the transport calls of Steps 2 and 3
SendCommandCalls(c, p) ==
  << BusOpen(port), BusWrite(addr, 0, CmndData(c, p)), BusClose(port) >>
  \o IF ReplyLen(c) = 0 THEN << >>
     ELSE << Sleep, BusOpen(port), BusRead(addr, 0, ReplyLen(c)), BusClose(port) >>

\* (chkSum & 0xff) != reply[replyLen - 1]
ReplyChecksumBad(r, n) == SumBytes(r, n - 1) % 256 # r[n]

\* faulty variant of FirmwareVersion: the three bytes in buffer order
FirmwareVersionReversed(r) == Str(r[4]) \o "." \o Str(r[5]) \o "." \o Str(r[6])

\* str(reply[5]) + '.' + str(reply[4]) + '.' + str(reply[3])
FirmwareVersion(r) == Str(r[6]) \o "." \o Str(r[5]) \o "." \o Str(r[4])

\* commands answered with a pass/fail byte, and the test of that byte
PassFailCommands == { SYSTEM_RESET, RESTORE_FACTORY_SETTINGS, SAVE_SETTINGS }
ReplyFails(r) == r[4] = 1

\* what the device can return for a command: header, length, command
\* number and three payload bytes, cut to the reply length, with a right
\* or a wrong checksum byte
ReplyPayloads(c) ==
  IF c = OBTAIN_FIRMWARE_VERSION THEN { << 7, 0, 0 >>, << 3, 12, 1 >> }
  ELSE IF c \in PassFailCommands THEN { << 0, 0, 0 >>, << 1, 0, 0 >>, << 2, 0, 0 >> }
  ELSE { << 0, 0, 0 >>, << 1, 0, 0 >> }

Replies(c) ==
  LET n == ReplyLen(c)
      body(pl) == SubSeq(<< 90, n, CmndNumber(c) >> \o pl \o << 0 >>, 1, n - 1)
  IN  { DeviceBlock(body(pl), FALSE) : pl \in ReplyPayloads(c) }
      \cup { DeviceBlock(body(pl), TRUE) : pl \in { << 1, 0, 0 >> } }

\* the transport call that raises (0: none) and the reply the device returns
SendCommandInputs(c) ==
  IF ReplyLen(c) = 0 THEN { << k, << >> >> : k \in 0..3 }
  ELSE { << k, << >> >> : k \in {1, 2, 3, 5, 6} }
       \cup { << k, rx >> : k \in {0, 7}, rx \in Replies(c) }

\* parameters passed with a command: frame rates, baud rates, a value
\* too wide for its field, and arbitrary values for the other commands
Params ==
  [ c \in Commands |->
      IF c = SET_FRAME_RATE THEN { FRAME_20, BAUD_115200 }
      ELSE IF c = SET_BAUD_RATE THEN { BAUD_9600 }
      ELSE { 0 } ]

AllParams ==
  [ c \in Commands |->
      IF c = SET_FRAME_RATE THEN FrameRates
      ELSE IF c = SET_BAUD_RATE THEN BaudRates
      ELSE { 0, 1, 255, 65536 } ]

\* sendCommand(cmnd, param), cmnd and param drawn from paramsOf
SendCommandCall(paramsOf) ==
  /\ \E c \in Commands :
     \E p \in paramsOf[c] :
       /\ cmnd' = c
       /\ param' = p
       /\ IF ParamOverflow(c, p)
          THEN /\ status' = TFMP_READY
               /\ busLog' = << >>
               /\ fault' = 0
               /\ exc' = "OverflowError"
               /\ result' = "None"
               /\ UNCHANGED << version, reply >>
          ELSE \E in \in SendCommandInputs(c) :
                 LET k == in[1]
                     rx == in[2]
                     n == ReplyLen(c)
                     seq == SendCommandCalls(c, p)
                     read == n # 0 /\ (k = 0 \/ k > 6)  \* read_i2c_block_data returned
                     done == k = 0                      \* no transport call raised
                 IN  /\ busLog' = Upto(seq, k)
                     /\ fault' = k
                     /\ exc' = IF done THEN "" ELSE "OSError"
                     /\ reply' = IF read THEN rx ELSE reply
                     /\ IF ~done
                        THEN /\ status' = TFMP_READY
                             /\ result' = "None"
                             /\ UNCHANGED version
                        ELSE IF n = 0
                        THEN /\ status' = TFMP_READY
                             /\ result' = "True"
                             /\ UNCHANGED version
                        ELSE IF ReplyChecksumBad(rx, n)
                        THEN /\ status' = TFMP_CHECKSUM
                             /\ result' = "False"
                             /\ UNCHANGED version
                        ELSE IF c = OBTAIN_FIRMWARE_VERSION
                        THEN /\ version' = FirmwareVersion(rx)
                             /\ status' = TFMP_READY
                             /\ result' = "True"
                        ELSE IF c \in PassFailCommands /\ ReplyFails(rx)
                        THEN /\ status' = TFMP_FAIL
                             /\ result' = "False"
                             /\ UNCHANGED version
                        ELSE /\ status' = TFMP_READY
                             /\ result' = "True"
                             /\ UNCHANGED version
  /\ op' = "sendCommand"
  /\ UNCHANGED << dist, flux, temp, frame, addr, port, portNumber, devAddress >>

\* a run of at most limit calls of sendCommand
SendCommandWith(paramsOf, limit) ==
  /\ calls < limit
  /\ SendCommandCall(paramsOf)
  /\ calls' = calls + 1
  /\ UNCHANGED scriptVars

SendCommand == SendCommandWith(Params, MaxCalls)

Next == Begin \/ GetData \/ SendCommand

Spec == Init /\ [][Next]_vars

\* sendCommand alone, with every command and every documented parameter
SendCommandAll == SendCommandWith(AllParams, MaxCodecCalls)

NextCodec == SendCommandAll

SpecCodec == Init /\ [][NextCodec]_vars

\* ------------------------------------------------- tfmpi2c_test.py
\* The example script: begin, three commands, then the polling loop. The
\* package calls are the ones above; pc is the script's position:
\*   "begin" "reset" "version" "rate"   about to make that call
\*   "poll"        in the inner loop, about to sleep 50 ms and call getData
\*   "pause"       in the except clause, sleeping two seconds
\*   "exit"        sys.exit() after "not ready"
\*   "crashed"     an exception left the script outside the try statement
\*   "abandoned"   the loop condition attempts < 3 was false
\*   "interrupted" the loop was left by break
\*   "killed"      a keyboard interrupt left the script outside the try block
I2CPort == 4
I2CAddr == 16

\* number of package calls before the loop, and of getData calls in it
PreludeCalls == 4
MaxPolls == 4

Terminated == pc \in { "exit", "crashed", "abandoned", "interrupted", "killed" }

\* getData calls of the loop made so far
Polls == calls - PreludeCalls

\* faulty variant of KeepsTrying: one restart more
KeepsTryingOffByOne(n) == n <= 3

\* while attempts < 3
KeepsTrying(n) == n < 3

\* what the polls of the loop meet: any transport call raising, and two
\* of the frames, each with a right or a wrong checksum byte
PollFrames ==
  { DeviceBlock(body, bad) :
      body \in { << 89, 89, 100, 0, 200, 0, 152, 8 >>,
                 << 89, 89, 255, 255, 200, 0, 152, 8 >> },
      bad \in BOOLEAN }
PollInputs == { in \in GetDataInputs : in[2] = << >> \/ in[2] \in PollFrames }

\* the one command with the one parameter the script sends
ScriptParams(c0, p0) == [ c \in Commands |-> IF c = c0 THEN { p0 } ELSE { } ]

\* if(tfmP.begin(I2CPort, I2CAddr)) ... else sys.exit()
ScriptBegin ==
  /\ pc = "begin"
  /\ BeginCall({ I2CPort }, { I2CAddr })
  /\ calls' = calls + 1
  /\ pc' = IF result' = "True" THEN "reset" ELSE "exit"
  /\ UNCHANGED << attempts, streak >>

\* if(tfmP.sendCommand(c, p)) print ... else tfmP.printReply(); nothing
\* catches an exception of the call
ScriptCommand(at, c, p, next) ==
  /\ pc = at
  /\ SendCommandCall(ScriptParams(c, p))
  /\ calls' = calls + 1
  /\ pc' = IF exc' = "" THEN next ELSE "crashed"
  /\ UNCHANGED << attempts, streak >>

ScriptReset == ScriptCommand("reset", SYSTEM_RESET, 0, "version")
ScriptVersion == ScriptCommand("version", OBTAIN_FIRMWARE_VERSION, 0, "rate")
\* the last command; attempts = 0 follows it
ScriptRate == ScriptCommand("rate", SET_FRAME_RATE, FRAME_20, "poll")

\* one pass of the inner loop: sleep, getData, print; an exception of
\* getData is caught by the bare except clause, which counts it
ScriptPoll ==
  /\ pc = "poll"
  /\ calls < PreludeCalls + MaxPolls
  /\ GetDataCall(PollInputs)
  /\ calls' = calls + 1
  /\ IF exc' = ""
     THEN /\ pc' = "poll"
          /\ attempts' = attempts
          /\ streak' = 0
     ELSE /\ pc' = "pause"
          /\ attempts' = attempts + 1
          /\ streak' = streak + 1

\* the two seconds are over: the loop condition is tested again
ScriptRetry ==
  /\ pc = "pause"
  /\ pc' = IF KeepsTrying(attempts) THEN "poll" ELSE "abandoned"
  /\ UNCHANGED << status, dist, flux, temp, version, frame, reply, addr, port,
                  op, cmnd, param, result, exc, busLog, fault, portNumber,
                  devAddress, calls, attempts, streak >>

\* Ctrl-C, taken while the script sleeps: in the try block it is caught
\* and the loop is left by break, anywhere else nothing catches it
ScriptInterrupt ==
  /\ ~Terminated
  /\ pc' = IF pc = "poll" THEN "interrupted" ELSE "killed"
  /\ UNCHANGED << status, dist, flux, temp, version, frame, reply, addr, port,
                  op, cmnd, param, result, exc, busLog, fault, portNumber,
                  devAddress, calls, attempts, streak >>

\* the steps the interpreter takes by itself
ScriptStep ==
  \/ ScriptBegin
  \/ ScriptReset
  \/ ScriptVersion
  \/ ScriptRate
  \/ ScriptPoll
  \/ ScriptRetry

NextScript == ScriptStep \/ ScriptInterrupt

\* the interpreter runs the script as long as it has a next statement
SpecScript == Init /\ [][NextScript]_vars /\ WF_vars(ScriptStep)

\* ================================================================ claims
\* Independent arithmetic used to state the claims.
SumMod256(bytes) == DeviceSum(bytes)
AllButLast(bytes) == SubSeq(bytes, 1, Len(bytes) - 1)
ChecksumValid(bytes) ==
  Len(bytes) > 0 /\ bytes[Len(bytes)] = SumMod256(AllButLast(bytes))
Signed16(lo, hi) ==
  IF lo + 256 * hi >= 32768 THEN lo + 256 * hi - 65536 ELSE lo + 256 * hi
Decimal(n) ==
  LET d(i) == SubSeq("0123456789", i + 1, i + 1)
  IN  IF n >= 100 THEN d(n \div 100) \o d((n \div 10) % 10) \o d(n % 10)
      ELSE IF n >= 10 THEN d(n \div 10) \o d(n % 10)
      ELSE d(n)

\* the byte lists the latest call handed to write_i2c_block_data
Written == { busLog[i].data : i \in { j \in 1..Len(busLog) : busLog[j].call = "write" } }
\* the block transfers (writes and reads) of the latest call, in order
IsTransfer(e) == e.call \in { "write", "read" }
Transfers == SelectSeq(busLog, IsTransfer)
\* the latest call returned (no exception left it)
Returned == exc = ""
\* the latest call was a getData / sendCommand that read a whole block
GotFrame == op = "getData" /\ Returned
GotReply == op = "sendCommand" /\ Returned /\ (cmnd % 256) > 0

\* C1: every byte list sendCommand hands to the transport write has exactly
\* commandLength bytes (second-lowest byte of the command code) and its last
\* byte is the sum of the preceding bytes mod 256, for every command and
\* every documented parameter.
C1_CommandLengthAndChecksum ==
  op = "sendCommand" =>
    \A b \in Written :
      /\ Len(b) = (cmnd \div 256) % 256
      /\ b[Len(b)] = SumMod256(AllButLast(b))

C1_Witness ==
  /\ op = "sendCommand"
  /\ cmnd = SET_BAUD_RATE
  /\ param = BAUD_921600
  /\ Written = { << 90, 8, 6, 0, 16, 14, 0, 134 >> }

\* C2: in the bytes sendCommand writes, byte[0] is the header 0x5A, byte[1]
\* is the command's commandLength and byte[2] its commandNumber, also for
\* SET_FRAME_RATE and SET_BAUD_RATE whose parameter bytes are patched in.
C2_HeaderLengthNumber ==
  op = "sendCommand" =>
    \A b \in Written :
      /\ b[1] = 90
      /\ b[2] = (cmnd \div 256) % 256
      /\ b[3] = (cmnd \div 65536) % 256

C2_Witness ==
  /\ op = "sendCommand"
  /\ cmnd = SET_FRAME_RATE
  /\ param = FRAME_1000
  /\ \E b \in Written : b[1] = 90 /\ b[2] = 6 /\ b[3] = 3 /\ b[4] = 232 /\ b[5] = 3

\* C3 (as claimed): for a frame with a valid checksum, with the distance and
\* strength fields read as signed 16-bit values: distance -1 gives Weak,
\* else strength -1 gives Strong, else distance -4 gives Flood, else Ready;
\* in the three abnormal cases getData returns False with dist, flux and
\* temp populated from the frame.
C3_ClassificationAsClaimed ==
  (GotFrame /\ ChecksumValid(frame)) =>
    LET d == Signed16(frame[3], frame[4])
        g == Signed16(frame[5], frame[6])
        expected == IF d = -1 THEN 10 ELSE IF g = -1 THEN 11
                    ELSE IF d = -4 THEN 12 ELSE 0
    IN  /\ status = expected
        /\ result = (IF expected = 0 THEN "True" ELSE "False")
        /\ temp = ((frame[7] + 256 * frame[8]) \div 8) - 256

C5_ChecksumRejected ==
  [][ ( \/ GotFrame' /\ ~ChecksumValid(frame')
        \/ GotReply' /\ ~ChecksumValid(reply') )
      => /\ result' = "False"
         /\ status' = 3
         /\ dist' = dist
         /\ flux' = flux
         /\ temp' = temp
         /\ version' = version ]_vars

C5_Witness ==
  /\ GotFrame
  /\ ~ChecksumValid(frame)
  /\ status = 3
  /\ dist = 100
  /\ frame[3] # 100

\* C6 (as claimed): for SYSTEM_RESET, RESTORE_FACTORY_SETTINGS and
\* SAVE_SETTINGS with a reply whose checksum is valid, every non-zero value
\* of reply byte[3] gives status Fail (6) and return value False, and zero
\* gives status Ready (0) and return value True.
C6_PassFailAsClaimed ==
  ( /\ GotReply
    /\ cmnd \in { SYSTEM_RESET, RESTORE_FACTORY_SETTINGS, SAVE_SETTINGS }
    /\ ChecksumValid(reply) )
  => IF reply[4] # 0 THEN status = 6 /\ result = "False"
     ELSE status = 0 /\ result = "True"

\* C7: after sendCommand(OBTAIN_FIRMWARE_VERSION) receives a reply with a
\* valid checksum, version is decimal reply[5] '.' reply[4] '.' reply[3]
\* (7, 0, 0 gives "0.0.7"), the status is Ready and the call returned True;
\* and version changes in no other call.
C7_VersionSet ==
  (GotReply /\ cmnd = OBTAIN_FIRMWARE_VERSION /\ ChecksumValid(reply)) =>
    /\ version = Decimal(reply[6]) \o "." \o Decimal(reply[5]) \o "." \o Decimal(reply[4])
    /\ (reply[4] = 7 /\ reply[5] = 0 /\ reply[6] = 0) => version = "0.0.7"
    /\ status = 0
    /\ result = "True"

C7_FirmwareVersion ==
  /\ []C7_VersionSet
  /\ [][ version' # version =>
           /\ GotReply'
           /\ cmnd' = OBTAIN_FIRMWARE_VERSION
           /\ ChecksumValid(reply')
           /\ result' = "True" ]_vars

C7_Witness ==
  /\ GotReply
  /\ cmnd = OBTAIN_FIRMWARE_VERSION
  /\ reply = << 90, 7, 1, 3, 12, 1, 114 >>
  /\ version = "1.12.3"

\* C8 (as claimed): sendCommand(SET_FRAME_RATE, P) writes the six bytes
\* 5A 06 06 (P mod 256) (P div 256) <checksum>.
C8_FrameRateLayoutAsClaimed ==
  (op = "sendCommand" /\ cmnd = SET_FRAME_RATE /\ param \in FrameRates) =>
    \A b \in Written :
      b = << 90, 6, 6, param % 256, param \div 256,
             (90 + 6 + 6 + (param % 256) + (param \div 256)) % 256 >>

\* C8 (amended): sendCommand(SET_FRAME_RATE, P) writes exactly the six bytes
\* 5A 06 03 (P mod 256) (P div 256) <checksum>, byte[2] being the command
\* number 03; with P = 20 the bytes are 5A 06 03 14 00 77.
C8_FrameRateLayout ==
  (op = "sendCommand" /\ cmnd = SET_FRAME_RATE /\ param \in FrameRates) =>
    /\ \A b \in Written :
         b = << 90, 6, 3, param % 256, param \div 256,
                (90 + 6 + 3 + (param % 256) + (param \div 256)) % 256 >>
    /\ param = 20 => \A b \in Written : b = << 90, 6, 3, 20, 0, 119 >>

C8_Witness ==
  /\ op = "sendCommand"
  /\ cmnd = SET_FRAME_RATE
  /\ param = FRAME_20
  /\ Written = { << 90, 6, 3, 20, 0, 119 >> }

\* C9: a sendCommand call makes one transport write of the encoded command,
\* before any read.  With replyLength 0 it returns True with status Ready
\* after the write and reads nothing; with replyLength > 0 the write is
\* followed, after the delay, by one read of replyLength bytes, and only
\* then is the reply interpreted.  (A call that a transport exception ends
\* has made a leading part of the same sequence of calls.)
C9_TransportOrder ==
  op = "sendCommand" =>
    LET n == cmnd % 256
        isWrite(e) == e.call = "write" /\ e.dev = addr /\ e.len = (cmnd \div 256) % 256
                      /\ e.data[1] = 90
        isRead(e) == e.call = "read" /\ e.dev = addr /\ e.len = n
        t == Transfers
    IN  /\ Len(t) <= (IF n = 0 THEN 1 ELSE 2)
        /\ Len(t) >= 1 => isWrite(t[1])
        /\ Len(t) >= 2 => isRead(t[2])
        /\ Returned => Len(t) = (IF n = 0 THEN 1 ELSE 2)
        /\ (Returned /\ n = 0) => (result = "True" /\ status = 0)
        /\ (Returned /\ n > 0) =>
             \E i, j, k \in 1..Len(busLog) :
               /\ i < j /\ j < k
               /\ busLog[i].call = "write"
               /\ busLog[j].call = "sleep"
               /\ busLog[k].call = "read"
        /\ (status # 0 \/ result = "False") => (Returned /\ Len(t) = 2)

C9_Witness ==
  /\ op = "sendCommand"
  /\ Returned
  /\ cmnd = SYSTEM_RESET
  /\ Len(Transfers) = 2
  /\ Transfers[1].call = "write"
  /\ Transfers[2].call = "read"
  /\ Transfers[2].len = 5

\* C10 (as claimed): when a transport open, write or read fails during
\* getData or sendCommand, the call returns False and the status is one of
\* I2CRead (7), I2CWrite (8), I2CLength (9), never Ready.
C10_TransportFaultsAsClaimed ==
  (op \in { "getData", "sendCommand" } /\ exc = "OSError"
     /\ busLog[Len(busLog)].call \in { "open", "write", "read" })
  => /\ result = "False"
     /\ status \in { 7, 8, 9 }

\* --------------------------------------------------------------- C11
\* the port and the address every transport call of the latest call used
UsesPortAndAddress(log, p, a) ==
  \A i \in 1..Len(log) :
    /\ log[i].call \in { "open", "close" } => log[i].dev = p
    /\ log[i].call \in { "write", "read", "write_quick" } => log[i].dev = a
\* the names of the transport calls of a log, in order
CallNames(log) == [ i \in 1..Len(log) |-> log[i].call ]

PollStep == pc = "poll" /\ calls' = calls + 1

\* C12 as stated: the polling loop abandons after 3 consecutive failure
\* cycles, that is, when it has abandoned, the three latest getData calls
\* of the loop all ended by an exception.
C12_ConsecutiveAsClaimed == pc = "abandoned" => streak = 3

\* C12: the polling loop abandons after 3 failure cycles in all, consecutive
\* or not (a getData call ended by an exception other than a keyboard
\* interrupt is a failure cycle, and the count is never reset): attempts
\* changes only by one, in a poll that raised, which is followed by the
\* pause; after the pause the loop polls again while attempts < 3 and is
\* abandoned when attempts = 3; a getData that returns, True or False, is
\* not counted and the loop goes on; a keyboard interrupt ends the script
\* in that step and changes nothing else; a script that has ended takes no
\* step; and if every getData call raises, the script eventually ends.
C12_BoundedRetry ==
  /\ [](attempts \in 0..3 /\ (pc = "abandoned" => attempts = 3))
  /\ [][ /\ attempts' # attempts =>
              PollStep /\ exc' # "" /\ attempts' = attempts + 1 /\ pc' = "pause"
         /\ PollStep /\ exc' # "" => attempts' = attempts + 1 /\ pc' = "pause"
         /\ PollStep /\ exc' = "" =>
              /\ result' \in { "True", "False" }
              /\ attempts' = attempts
              /\ pc' = "poll"
         /\ pc = "pause" =>
              /\ pc' = "poll" => attempts < 3
              /\ pc' = "abandoned" => attempts = 3
              /\ pc' \in { "poll", "abandoned", "killed" }
         /\ pc' \in { "interrupted", "killed" } =>
              /\ pc' = "interrupted" <=> pc = "poll"
              /\ UNCHANGED << status, dist, flux, temp, version, frame, reply,
                              addr, port, calls, attempts >>
         /\ ~Terminated
       ]_vars
  /\ <>(Terminated \/ attempts < Polls)

\* the loop abandoned at the third failure cycle although the cycle before
\* it was not a failure: four polls, three of which raised
C12_Witness ==
  /\ pc = "abandoned"
  /\ attempts = 3
  /\ Polls = 4
  /\ streak < 3

====
